---- MODULE Spec2Model ----
(***************************************************************************)
(* json-diff: the tree differ (deepCompare), the patch compiler            *)
(* (generatePatch) and the patch applier (applyPatch) of index.js, run as  *)
(* the `diff` and `patch` commands of the CLI, and the mergers of merge.js *)
(* (mergeJson, threeWayMerge, flattenObject, unflattenObject), run as the  *)
(* `merge` and `3way` commands.                                            *)
(*                                                                         *)
(* JavaScript strings are modelled as sequences of one-character strings,  *)
(* so that path building, the '.' -> '/' rewriting, split('/') and         *)
(* parseInt are computed character by character as the code computes them. *)
(* A JSON value is a record of one shape for every kind:                   *)
(*   k     the kind: "undef" "null" "bool" "num" "str" "arr" "obj"         *)
(*   s     the text of a scalar (digits of a number, chars of a string);   *)
(*         of an array or object, the name of its allocation (see Mark)    *)
(*   keys  own non-index property names, in Object.keys order              *)
(*   vals  the values of those properties                                  *)
(*   elems the elements of an array (a hole is Undef)                      *)
(***************************************************************************)
EXTENDS Integers, Sequences, FiniteSets, TLC

(***************************************************************************)
(* Bounds of the model.                                                    *)
(***************************************************************************)
MaxLen == 2
MaxKeys == 2
MaxOps == 2

(***************************************************************************)
(* Values.                                                                 *)
(***************************************************************************)
Val(kind, text, ks, vs, es) ==
  [k |-> kind, s |-> text, keys |-> ks, vals |-> vs, elems |-> es]

Undef == Val("undef", <<>>, <<>>, <<>>, <<>>)
Null == Val("null", <<>>, <<>>, <<>>, <<>>)
Num(digits) == Val("num", digits, <<>>, <<>>, <<>>)
Str(chars) == Val("str", chars, <<>>, <<>>, <<>>)
Bool(text) == Val("bool", text, <<>>, <<>>, <<>>)
Arr(es) == Val("arr", <<>>, <<>>, <<>>, es)
Obj(ks, vs) == Val("obj", <<>>, ks, vs, <<>>)

EmptyObj == Obj(<<>>, <<>>)
Num0 == Num(<<"0">>)
Num1 == Num(<<"1">>)
StrS == Str(<<"s">>)
BoolT == Bool(<<"t", "r", "u", "e">>)

Max(a, b) == IF a >= b THEN a ELSE b
Min(a, b) == IF a <= b THEN a ELSE b

DigitChars == <<"0", "1", "2", "3", "4", "5", "6", "7", "8", "9">>
IsDigit(c) == \E d \in 1..10 : DigitChars[d] = c
DigitVal(c) == (CHOOSE d \in 1..10 : DigitChars[d] = c) - 1

\* String(n) of a non-negative integer; NaN is modelled as -1.
RECURSIVE ToStr(_)
ToStr(n) ==
  IF n < 0 THEN <<"N", "a", "N">>
  ELSE IF n < 10 THEN <<DigitChars[n + 1]>>
  ELSE ToStr(n \div 10) \o <<DigitChars[(n % 10) + 1]>>

\* /^(\d+)$/
AllDigits(str) == Len(str) > 0 /\ \A i \in 1..Len(str) : IsDigit(str[i])

\* parseInt(str): the longest prefix of digits, NaN (-1) when there is none.
RECURSIVE DigitsValue(_, _)
DigitsValue(str, acc) ==
  IF str = <<>> \/ ~IsDigit(Head(str)) THEN acc
  ELSE DigitsValue(Tail(str), acc * 10 + DigitVal(Head(str)))

parseInt(str) ==
  IF str = <<>> \/ ~IsDigit(Head(str)) THEN -1 ELSE DigitsValue(str, 0)

\* A canonical array index: the property names an array stores as elements.
IsIndexName(name) == AllDigits(name) /\ ToStr(parseInt(name)) = name

typeof(v) ==
  CASE v.k = "undef" -> "undefined"
    [] v.k = "num" -> "number"
    [] v.k = "str" -> "string"
    [] v.k = "bool" -> "boolean"
    [] OTHER -> "object"

isObjectType(v) == v.k \in {"arr", "obj"}

isArray(v) == v.k = "arr"

\* !x is false for a truthy x: undefined, null, false, 0 and "" are falsy.
Truthy(v) ==
  CASE v.k \in {"undef", "null"} -> FALSE
    [] v.k = "num" -> v.s # <<"0">>
    [] v.k = "str" -> v.s # <<>>
    [] v.k = "bool" -> v.s = <<"t", "r", "u", "e">>
    [] OTHER -> TRUE

IndexOf(seq, x) ==
  IF \E i \in 1..Len(seq) : seq[i] = x
  THEN CHOOSE i \in 1..Len(seq) : seq[i] = x
  ELSE 0

\* Object.keys(v): the indices of an array first, then the named properties.
ObjectKeys(v) ==
  IF v.k = "arr"
  THEN [i \in 1..Len(v.elems) |-> ToStr(i - 1)] \o v.keys
  ELSE v.keys

\* v[name] for a value that is neither null nor undefined.
GetProp(v, name) ==
  CASE v.k = "arr" /\ IsIndexName(name) ->
         IF parseInt(name) < Len(v.elems) THEN v.elems[parseInt(name) + 1]
         ELSE Undef
    [] v.k = "str" /\ IsIndexName(name) ->
         IF parseInt(name) < Len(v.s) THEN Str(<<v.s[parseInt(name) + 1]>>)
         ELSE Undef
    [] OTHER ->
         IF IndexOf(v.keys, name) > 0 THEN v.vals[IndexOf(v.keys, name)]
         ELSE Undef

Join(seqs, sep) ==
  LET r[i \in 0..Len(seqs)] ==
        IF i = 0 THEN <<>>
        ELSE IF i = 1 THEN seqs[1]
        ELSE r[i - 1] \o sep \o seqs[i]
  IN r[Len(seqs)]

Quote(chars) == <<"\"">> \o chars \o <<"\"">>

\* JSON.stringify(v): array holes print as null, named properties of an
\* array and undefined-valued properties are left out.
RECURSIVE JSONstringify(_)
JSONstringify(v) ==
  CASE v.k \in {"null", "undef"} -> <<"n", "u", "l", "l">>
    [] v.k \in {"num", "bool"} -> v.s
    [] v.k = "str" -> Quote(v.s)
    [] v.k = "arr" ->
         <<"[">> \o Join([i \in 1..Len(v.elems) |-> JSONstringify(v.elems[i])],
                         <<",">>) \o <<"]">>
    [] OTHER ->
         LET live == SelectSeq([i \in 1..Len(v.keys) |-> i],
                               LAMBDA i : v.vals[i].k # "undef")
         IN <<"{">> \o Join([j \in 1..Len(live) |->
                               Quote(v.keys[live[j]]) \o <<":">>
                                 \o JSONstringify(v.vals[live[j]])],
                            <<",">>) \o <<"}">>

(***************************************************************************)
(* deepCompare                                                             *)
(***************************************************************************)
Edited(path, l, r) == [kind |-> "E", path |-> path, lhs |-> l, rhs |-> r]
Added(path, r) == [kind |-> "N", path |-> path, lhs |-> Undef, rhs |-> r]

RemovedNoValue(path, l) ==
  [kind |-> "D", path |-> path, lhs |-> Undef, rhs |-> Undef]

Removed(path, l) == [kind |-> "D", path |-> path, lhs |-> l, rhs |-> Undef]

Flatten(seqs) ==
  LET r[i \in 0..Len(seqs)] == IF i = 0 THEN <<>> ELSE r[i - 1] \o seqs[i]
  IN r[Len(seqs)]

IndexPathOneBased(basePath, i) ==
  IF basePath # <<>> THEN basePath \o <<"[">> \o ToStr(i + 1) \o <<"]">>
  ELSE <<"[">> \o ToStr(i + 1) \o <<"]">>

\* basePath ? `${basePath}[${i}]` : `[${i}]`
IndexPath(basePath, i) ==
  IF basePath # <<>> THEN basePath \o <<"[">> \o ToStr(i) \o <<"]">>
  ELSE <<"[">> \o ToStr(i) \o <<"]">>

\* basePath ? `${basePath}.${key}` : key
KeyPath(basePath, key) ==
  IF basePath # <<>> THEN basePath \o <<".">> \o key ELSE key

GoneKeysByPosition(keys1, keys2) ==
  SelectSeq(keys1, LAMBDA key :
    IndexOf(keys1, key) > Len(keys2) \/ keys2[IndexOf(keys1, key)] # key)

\* The keys of keys1 that keys2 does not have, in keys1's order.
GoneKeys(keys1, keys2) == SelectSeq(keys1, LAMBDA key : IndexOf(keys2, key) = 0)

\* [...keys1].filter(k => keys2.has(k))
BothKeys(keys1, keys2) == SelectSeq(keys1, LAMBDA key : IndexOf(keys2, key) > 0)

AddedFirst(removed, added, changed) == added \o removed \o changed

\* The order of the three loops over the keys: removed, added, changed.
InLoopOrder(removed, added, changed) == removed \o added \o changed

RECURSIVE deepCompare(_, _, _)
deepCompare(obj1, obj2, basePath) ==
  IF typeof(obj1) # typeof(obj2) THEN <<Edited(basePath, obj1, obj2)>>
  ELSE IF isArray(obj1) /\ isArray(obj2) THEN
    LET maxLength == Max(Len(obj1.elems), Len(obj2.elems))
    IN Flatten([n \in 1..maxLength |->
         LET i == n - 1
             currentPath == IndexPath(basePath, i)
         IN IF i >= Len(obj1.elems) THEN <<Added(currentPath, obj2.elems[n])>>
            ELSE IF i >= Len(obj2.elems)
              THEN <<Removed(currentPath, obj1.elems[n])>>
            ELSE deepCompare(obj1.elems[n], obj2.elems[n], currentPath)])
  ELSE IF typeof(obj1) = "object" /\ obj1.k # "null" /\ obj2.k # "null" THEN
    LET keys1 == ObjectKeys(obj1)
        keys2 == ObjectKeys(obj2)
        gone == GoneKeys(keys1, keys2)
        new == GoneKeys(keys2, keys1)
        both == BothKeys(keys1, keys2)
    IN InLoopOrder(
         [n \in 1..Len(gone) |->
            Removed(KeyPath(basePath, gone[n]), GetProp(obj1, gone[n]))],
         [n \in 1..Len(new) |->
            Added(KeyPath(basePath, new[n]), GetProp(obj2, new[n]))],
         Flatten([n \in 1..Len(both) |->
            LET key == both[n]
                currentPath == KeyPath(basePath, key)
                v1 == GetProp(obj1, key)
                v2 == GetProp(obj2, key)
            IN IF typeof(v1) = "object" /\ typeof(v2) = "object"
                  /\ v1.k # "null" /\ v2.k # "null"
               THEN deepCompare(v1, v2, currentPath)
               ELSE IF JSONstringify(v1) # JSONstringify(v2)
                 THEN <<Edited(currentPath, v1, v2)>>
               ELSE <<>>]))
  ELSE IF obj1 # obj2 THEN <<Edited(basePath, obj1, obj2)>>
  ELSE <<>>

(***************************************************************************)
(* generatePatch                                                           *)
(***************************************************************************)
\* change.path.replace(/\./g, '/')
ReplaceDots(path) ==
  [i \in 1..Len(path) |-> IF path[i] = "." THEN "/" ELSE path[i]]

PatchPath(path) == IF path # <<>> THEN <<"/">> \o ReplaceDots(path) ELSE <<>>

PatchOf(change) ==
  CASE change.kind = "N" ->
         [op |-> "add", path |-> PatchPath(change.path), value |-> change.rhs]
    [] change.kind = "D" ->
         [op |-> "remove", path |-> PatchPath(change.path), value |-> Undef]
    [] OTHER ->
         [op |-> "replace", path |-> PatchPath(change.path),
          value |-> change.rhs]

generatePatch(differences) ==
  [n \in 1..Len(differences) |-> PatchOf(differences[n])]

(***************************************************************************)
(* applyPatch                                                              *)
(***************************************************************************)
\* JSON.parse(JSON.stringify(v)): a structural copy in which array holes
\* become null and named properties of arrays and undefined-valued
\* properties are dropped.
RECURSIVE JSONClone(_)
JSONClone(v) ==
  CASE v.k = "undef" -> Null
    [] v.k = "arr" -> Arr([i \in 1..Len(v.elems) |-> JSONClone(v.elems[i])])
    [] v.k = "obj" ->
         LET live == SelectSeq([i \in 1..Len(v.keys) |-> i],
                               LAMBDA i : v.vals[i].k # "undef")
         IN Obj([j \in 1..Len(live) |-> v.keys[live[j]]],
                [j \in 1..Len(live) |-> JSONClone(v.vals[live[j]])])
    [] OTHER -> v

\* str.split(sep)
RECURSIVE SplitFrom(_, _, _, _)
SplitFrom(str, sep, cur, acc) ==
  IF str = <<>> THEN Append(acc, cur)
  ELSE IF Head(str) = sep
    THEN SplitFrom(Tail(str), sep, <<>>, Append(acc, cur))
  ELSE SplitFrom(Tail(str), sep, Append(cur, Head(str)), acc)

Split(str, sep) == SplitFrom(str, sep, <<>>, <<>>)

\* patch.path.split('/').filter(p => p)
PathParts(path) == SelectSeq(Split(path, "/"), LAMBDA p : p # <<>>)

\* Where a new own property lands in Object.keys order: integer-like names
\* ascending before every other name, other names in insertion order.
InsertKeyAt(keys, name) ==
  IF ~IsIndexName(name) THEN Len(keys) + 1
  ELSE LET later == {i \in 1..Len(keys) :
                       ~IsIndexName(keys[i])
                         \/ parseInt(keys[i]) > parseInt(name)}
       IN IF later = {} THEN Len(keys) + 1
          ELSE CHOOSE i \in later : \A j \in later : i <= j

InsertAt(seq, pos, x) ==
  SubSeq(seq, 1, pos - 1) \o <<x>> \o SubSeq(seq, pos, Len(seq))

RemoveAt(seq, pos) == SubSeq(seq, 1, pos - 1) \o SubSeq(seq, pos + 1, Len(seq))

\* v[name] = x for a value that is neither null nor undefined; on a
\* primitive the assignment is silently dropped (the module is not strict).
SetProp(v, name, x) ==
  CASE v.k = "arr" /\ IsIndexName(name) ->
         LET i == parseInt(name)
         IN IF i < Len(v.elems) THEN [v EXCEPT !.elems[i + 1] = x]
            ELSE [v EXCEPT !.elems =
                    v.elems \o [h \in 1..(i - Len(v.elems)) |-> Undef]
                            \o <<x>>]
    [] v.k \in {"arr", "obj"} /\ ~(v.k = "arr" /\ IsIndexName(name)) ->
         IF IndexOf(v.keys, name) > 0
         THEN [v EXCEPT !.vals[IndexOf(v.keys, name)] = x]
         ELSE [v EXCEPT !.keys = InsertAt(v.keys, InsertKeyAt(v.keys, name), name),
                        !.vals = InsertAt(v.vals, InsertKeyAt(v.keys, name), x)]
    [] OTHER -> v

\* delete v[name] for a value that is neither an array, null nor undefined.
DeleteProp(v, name) ==
  IF v.k = "obj" /\ IndexOf(v.keys, name) > 0
  THEN [v EXCEPT !.keys = RemoveAt(v.keys, IndexOf(v.keys, name)),
                 !.vals = RemoveAt(v.vals, IndexOf(v.keys, name))]
  ELSE v

\* The start index splice() uses: NaN counts as 0, an index past the end as
\* the length.
SpliceStart(arr, index) == IF index < 0 THEN 0 ELSE Min(index, Len(arr.elems))

SpliceInsertAfter(arr, index, x) ==
  [arr EXCEPT !.elems =
     InsertAt(arr.elems, Min(SpliceStart(arr, index) + 1, Len(arr.elems)) + 1, x)]

\* current.splice(index, 0, x)
SpliceInsert(arr, index, x) ==
  [arr EXCEPT !.elems = InsertAt(arr.elems, SpliceStart(arr, index) + 1, x)]

\* current.splice(index, 1)
SpliceRemove(arr, index) ==
  [arr EXCEPT !.elems = RemoveAt(arr.elems, SpliceStart(arr, index) + 1)]

Thrown(v) == [v |-> v, thrown |-> TRUE]
Done(v) == [v |-> v, thrown |-> FALSE]

\* The switch on patch.op, applied to the container the walk ended in.
\* lastPart is "undefined" when the pointer has no segment.
ApplyLast(current, lastPart, patch) ==
  IF current.k \in {"undef", "null"} THEN Thrown(current)
  ELSE CASE patch.op = "add" ->
              IF isArray(current)
              THEN Done(SpliceInsert(current, parseInt(lastPart), patch.value))
              ELSE Done(SetProp(current, lastPart, patch.value))
         [] patch.op = "remove" ->
              IF isArray(current)
              THEN Done(SpliceRemove(current, parseInt(lastPart)))
              ELSE Done(DeleteProp(current, lastPart))
         [] patch.op = "replace" ->
              IF isArray(current)
              THEN Done(SetProp(current, ToStr(parseInt(lastPart)), patch.value))
              ELSE Done(SetProp(current, lastPart, patch.value))
         [] OTHER -> Done(current)

UndefinedName == <<"u", "n", "d", "e", "f", "i", "n", "e", "d">>

\* One iteration of the loop over patches, from `current` down the
\* remaining segments: the value of `current` afterwards, and whether a
\* TypeError was thrown on the way.
RECURSIVE ApplyAt(_, _, _)
ApplyAt(current, parts, patch) ==
  IF Len(parts) <= 1
  THEN ApplyLast(current, IF parts = <<>> THEN UndefinedName ELSE parts[1],
                 patch)
  ELSE IF current.k \in {"undef", "null"} THEN Thrown(current)
  ELSE LET part == Head(parts)
           name == IF AllDigits(part) /\ isArray(current)
                   THEN ToStr(parseInt(part)) ELSE part
           made == IF ~Truthy(GetProp(current, name))
                   THEN SetProp(current, name, EmptyObj) ELSE current
           sub == ApplyAt(GetProp(made, name), Tail(parts), patch)
       IN [v |-> SetProp(made, name, sub.v), thrown |-> sub.thrown]

ApplyOne(tree, patch) == ApplyAt(tree, PathParts(patch.path), patch)

(***************************************************************************)
(* merge.js: mergeJson and mergeArrays                                     *)
(*                                                                         *)
(* Object identity: the s field of an array or object, which holds no      *)
(* text, names the allocation the node comes from. JSON.parse allocates    *)
(* the nodes of a document read from a file (Mark), and every array or     *)
(* object the code builds itself (a literal, a spread, a JSON copy) is a   *)
(* new node with no name. A node that is assigned, pushed or spread into   *)
(* another container keeps its name: it is the same node.                  *)
(***************************************************************************)
RECURSIVE Mark(_, _)
Mark(v, who) ==
  CASE v.k = "arr" ->
         [v EXCEPT !.s = <<who>>,
                   !.elems = [i \in 1..Len(v.elems) |-> Mark(v.elems[i], who)]]
    [] v.k = "obj" ->
         [v EXCEPT !.s = <<who>>,
                   !.vals = [i \in 1..Len(v.vals) |-> Mark(v.vals[i], who)]]
    [] OTHER -> v

\* Array.isArray(x) ? 'array' : typeof x
TypeOrArray(v) == IF isArray(v) THEN "array" ELSE typeof(v)

\* The loop of mergeArrays over arr2, on the elements of result.
RECURSIVE PushNew(_, _)
PushNew(result0, items) ==
  IF items = <<>> THEN result0
  ELSE LET item == Head(items)
           present ==
             IF typeof(item) = "object" /\ item.k # "null"
             THEN \E i \in 1..Len(result0) :
                    JSONstringify(result0[i]) = JSONstringify(item)
             ELSE \E i \in 1..Len(result0) : result0[i] = item
       IN PushNew(IF present THEN result0 ELSE Append(result0, item),
                  Tail(items))

mergeArrays(arr1, arr2) == Arr(PushNew(arr1.elems, arr2.elems))

ArrayCaseSwapped(opts, targetValue, sourceValue) ==
  CASE opts.arrayMerge = "concatenate" -> JSONClone(sourceValue)
    [] opts.arrayMerge = "overwrite" ->
         Arr(targetValue.elems \o sourceValue.elems)
    [] opts.arrayMerge = "merge" -> mergeArrays(targetValue, sourceValue)
    [] OTHER -> targetValue

\* switch (arrayMerge): the array assigned to t[key]; no case assigns none.
ArrayCase(opts, targetValue, sourceValue) ==
  CASE opts.arrayMerge = "overwrite" -> JSONClone(sourceValue)
    [] opts.arrayMerge = "concatenate" ->
         Arr(targetValue.elems \o sourceValue.elems)
    [] opts.arrayMerge = "merge" -> mergeArrays(targetValue, sourceValue)
    [] OTHER -> targetValue

\* The inner function merge(t, s) of mergeJson from the key list `keys` on:
\* t after the loop, and whether a TypeError was thrown (t is null).
RECURSIVE merge(_, _, _, _)
merge(t, s, keys, opts) ==
  IF keys = <<>> THEN Done(t)
  ELSE IF t.k \in {"null", "undef"} THEN Thrown(t)
  ELSE
    LET key == Head(keys)
        sourceValue == GetProp(s, key)
        targetValue == GetProp(t, key)
        sourceType == TypeOrArray(sourceValue)
        targetType == TypeOrArray(targetValue)
        copied == SetProp(t, key, JSONClone(sourceValue))
        byStrategy == IF opts.strategy = "preserve" THEN t ELSE copied
        one ==
          IF targetValue.k = "undef" THEN Done(copied)
          ELSE IF sourceType # targetType THEN Done(byStrategy)
          ELSE IF sourceType = "array" THEN
            Done(SetProp(t, key, ArrayCase(opts, targetValue, sourceValue)))
          ELSE IF sourceType = "object" /\ sourceValue.k # "null" THEN
            LET sub == merge(targetValue, sourceValue, ObjectKeys(sourceValue),
                             opts)
            IN [v |-> SetProp(t, key, sub.v), thrown |-> sub.thrown]
          ELSE Done(byStrategy)
    IN IF one.thrown THEN one ELSE merge(one.v, s, Tail(keys), opts)

mergeJson(target, source, opts) ==
  merge(JSONClone(target), source, ObjectKeys(source), opts)

(***************************************************************************)
(* merge.js: flattenObject, unflattenObject, threeWayMerge                 *)
(*                                                                         *)
(* A flat mapping, a change set and a change are JavaScript objects, and   *)
(* are modelled as such: their keys are in Object.keys order.              *)
(***************************************************************************)
Dot == "."

\* The inner function flatten(current, path) of flattenObject, on the
\* result so far; flattenEntries is its loop over Object.entries(current).
RECURSIVE flatten(_, _, _)
RECURSIVE flattenEntries(_, _, _, _)
flatten(acc, current, path) ==
  IF typeof(current) # "object" \/ current.k = "null" \/ isArray(current)
  THEN SetProp(acc, path, current)
  ELSE flattenEntries(acc, current, ObjectKeys(current), path)

flattenEntries(acc, current, keys, path) ==
  IF keys = <<>> THEN acc
  ELSE LET key == Head(keys)
           newPath == IF path # <<>> THEN path \o <<Dot>> \o key ELSE key
       IN flattenEntries(flatten(acc, GetProp(current, key), newPath),
                         current, Tail(keys), path)

flattenObject(obj) == flatten(EmptyObj, obj, <<>>)

\* The walk of unflattenObject and of setValue from `current` down the
\* keys, and the assignment at the last key.
RECURSIVE SetNested(_, _, _)
SetNested(current, keys, value) ==
  IF Len(keys) = 1 THEN SetProp(current, keys[1], value)
  ELSE LET key == Head(keys)
           child == GetProp(current, key)
           made == IF ~Truthy(child) \/ typeof(child) # "object"
                   THEN EmptyObj ELSE child
       IN SetProp(current, key, SetNested(made, Tail(keys), value))

RECURSIVE unflattenEntries(_, _, _)
unflattenEntries(acc, obj, paths) ==
  IF paths = <<>> THEN acc
  ELSE unflattenEntries(
         SetNested(acc, Split(Head(paths), Dot), GetProp(obj, Head(paths))),
         obj, Tail(paths))

unflattenObject(obj) == unflattenEntries(EmptyObj, obj, ObjectKeys(obj))

setValue(obj, path, value) ==
  SetNested(obj, Split(path, Dot), JSONClone(value))

\* a === b: scalars are compared by type and value, arrays and objects by
\* identity; a new node is no node of a document.
StrictEquals(a, b) == a = b /\ (a.k \in {"arr", "obj"} => a.s # <<>>)

FromName == <<"f", "r", "o", "m">>
ValueName == <<"v", "a", "l", "u", "e">>

\* { from: flatFrom[path], value }
Change(fromValue, value) == Obj(<<FromName, ValueName>>, <<fromValue, value>>)

RECURSIVE compareEntries(_, _, _, _)
compareEntries(changes, flatFrom, flatTo, paths) ==
  IF paths = <<>> THEN changes
  ELSE LET path == Head(paths)
           value == GetProp(flatTo, path)
           next == IF ~StrictEquals(GetProp(flatFrom, path), value)
                   THEN SetProp(changes, path,
                                Change(GetProp(flatFrom, path), value))
                   ELSE changes
       IN compareEntries(next, flatFrom, flatTo, Tail(paths))

compareChanges(from, to) ==
  compareEntries(EmptyObj, flattenObject(from), flattenObject(to),
                 ObjectKeys(flattenObject(to)))

\* The paths findConflicts returns, in the order it pushes them.
findConflicts(localChanges, remoteChanges) ==
  SelectSeq(ObjectKeys(localChanges), LAMBDA path :
    /\ Truthy(GetProp(remoteChanges, path))
    /\ JSONstringify(GetProp(GetProp(localChanges, path), ValueName))
         # JSONstringify(GetProp(GetProp(remoteChanges, path), ValueName)))

\* One of the two loops of threeWayMerge that apply a change set.
RECURSIVE applyChanges(_, _, _, _)
applyChanges(acc, changes, paths, conflicts) ==
  IF paths = <<>> THEN acc
  ELSE LET path == Head(paths)
           next == IF \A i \in 1..Len(conflicts) : conflicts[i] # path
                   THEN setValue(acc, path,
                                 GetProp(GetProp(changes, path), ValueName))
                   ELSE acc
       IN applyChanges(next, changes, Tail(paths), conflicts)

\* localChanges[path]?.value
OptionalValue(changes, path) ==
  IF GetProp(changes, path).k = "undef" THEN Undef
  ELSE GetProp(GetProp(changes, path), ValueName)

threeWayMerge(base0, local0, remote0) ==
  LET localChanges == compareChanges(base0, local0)
      remoteChanges == compareChanges(base0, remote0)
      conflicts == findConflicts(localChanges, remoteChanges)
      afterLocal == applyChanges(JSONClone(base0), localChanges,
                                 ObjectKeys(localChanges), conflicts)
      afterRemote == applyChanges(afterLocal, remoteChanges,
                                  ObjectKeys(remoteChanges), conflicts)
  IN [merged |-> afterRemote,
      conflicts |-> [i \in 1..Len(conflicts) |->
                       [path |-> conflicts[i],
                        local |-> OptionalValue(localChanges, conflicts[i]),
                        remote |-> OptionalValue(remoteChanges, conflicts[i])]]]

(***************************************************************************)
(* The inputs: the JSON documents the commands read, and the operations of *)
(* a patch file that was not written by the diff command.                  *)
(***************************************************************************)
KeyA == <<"a">>
KeyB == <<"b">>
KeyDot == <<"a", ".", "b">>
Key0 == <<"0">>
Keys == {KeyA, KeyB, KeyDot, Key0}

Scalars == {Null, Num0, Num1, StrS, BoolT}
Kids == {Num1, Null}

SeqsUpTo(S, n) == UNION {[1..m -> S] : m \in 0..n}

\* What JSON.parse gives for an object: its keys are distinct and in
\* Object.keys order.
KeysInOrder(ks) ==
  /\ \A i, j \in 1..Len(ks) : i # j => ks[i] # ks[j]
  /\ \A i \in 1..Len(ks) : InsertKeyAt(SubSeq(ks, 1, i - 1), ks[i]) = i

KeySeqs(n) == {ks \in SeqsUpTo(Keys, n) : KeysInOrder(ks)}

ArraysOf(S, n) == {Arr(es) : es \in SeqsUpTo(S, n)}

ObjectsOf(S, n) ==
  UNION {{Obj(ks, vs) : vs \in [1..Len(ks) -> S]} : ks \in KeySeqs(n)}

Flat ==
  Scalars \cup ArraysOf(Kids, MaxLen) \cup ObjectsOf(Kids, MaxKeys)
    \cup ArraysOf(Scalars, 1) \cup ObjectsOf(Scalars, 1)

\* Containers of at most one entry, the children of the nested documents.
Small == ArraysOf(Kids, 1) \cup ObjectsOf(Kids, 1)

Nested ==
  {Arr(<<x>>) : x \in Small}
    \cup {Obj(<<KeyA>>, <<x>>) : x \in Small}
    \cup {Obj(<<KeyA, KeyDot>>, <<x, y>>) : x \in ObjectsOf(Kids, 1), y \in Kids}
    \cup {Obj(<<KeyDot, KeyA>>, <<y, x>>) : x \in ObjectsOf(Kids, 1), y \in Kids}

Trees == Flat \cup Nested

\* The pointers of a foreign patch file, as lists of segments: the root, a
\* key, an index, and nested ones through a key or an index.
PointerSegs ==
  {<<>>, <<KeyA>>, <<Key0>>, <<<<"1">>>>, <<KeyA, KeyA>>, <<KeyA, Key0>>,
   <<KeyA, <<"1">>>>, <<Key0, KeyA>>, <<KeyA, Key0, KeyA>>}

Pointer(segs) == Flatten([i \in 1..Len(segs) |-> <<"/">> \o segs[i]])

Pointers == {Pointer(segs) : segs \in PointerSegs}

Num7 == Num(<<"7">>)

ForeignOps ==
  {[op |-> o, path |-> p, value |-> Num7] : o \in {"add", "replace"}, p \in Pointers}
    \cup {[op |-> "remove", path |-> p, value |-> Undef] : p \in Pointers}

\* The documents of the merge command: objects whose values are scalars,
\* arrays (of scalars, of objects whose keys come in either order, of
\* arrays) and objects one level deeper.
MergeLeaves == {Null, Num0, Num1, StrS}

MergeItems ==
  {Num1, Null, Arr(<<>>), Obj(<<KeyA, KeyB>>, <<Num1, Num1>>),
   Obj(<<KeyB, KeyA>>, <<Num1, Num1>>)}

MergeInner ==
  {EmptyObj} \cup {Obj(<<KeyA>>, <<x>>) :
                     x \in MergeLeaves \cup ArraysOf({Num1}, 1) \cup {EmptyObj}}

MergeValues == MergeLeaves \cup ArraysOf(MergeItems, MaxLen) \cup MergeInner

MergeDocs ==
  {EmptyObj}
    \cup {Obj(<<KeyA>>, <<x>>) : x \in MergeValues}
    \cup {Obj(ks, <<x, y>>) : ks \in {<<KeyA, KeyB>>, <<KeyB, KeyA>>},
                              x \in {Num1, EmptyObj}, y \in {Null, Arr(<<Num1>>)}}

Strategies == {"overwrite", "preserve"}
ArrayMerges == {"overwrite", "concatenate", "merge"}

\* The documents of the 3way command: objects whose leaves are scalars and
\* arrays, one level or two levels deep, a key beside or in place of
\* another, and a key that holds the separator.
ThreeLeaves == {Num0, Num1, StrS, Arr(<<>>), Arr(<<Num1>>)}

ThreeDocs ==
  {EmptyObj, Obj(<<KeyA>>, <<EmptyObj>>)}
    \cup {Obj(<<KeyA>>, <<x>>) : x \in ThreeLeaves}
    \cup {Obj(<<KeyA>>, <<Obj(<<KeyB>>, <<x>>)>>) : x \in ThreeLeaves}
    \cup {Obj(<<KeyA, KeyB>>, <<x, y>>) : x \in ThreeLeaves, y \in {Num0, Num1}}
    \cup {Obj(<<KeyA, KeyDot>>, <<x, y>>) : x, y \in {Num0, Num1}}

\* The trees given to flattenObject: objects without arrays, whose values
\* are scalars, null, and objects, empty ones among them.
FlatKids ==
  {Num1, Null, EmptyObj} \cup ObjectsOf({Num1, EmptyObj}, 1)

FlatDocs == ObjectsOf(FlatKids, MaxKeys)

(***************************************************************************)
(* The state machine. SpecDiff is one run of the `diff` command (with -p)  *)
(* on two documents, followed by the `patch` command on the first document *)
(* with the patch file just written. SpecPatch is one run of the `patch`   *)
(* command on a document with a patch file from elsewhere. SpecMerge is    *)
(* one run of the `merge` command, SpecThree one run of the `3way`         *)
(* command, SpecFlat a call of flattenObject followed by unflattenObject.  *)
(***************************************************************************)
VARIABLES
  pc,          \* "start", "diffed", "applying", "done", "failed"
  obj1,        \* the document of the first file
  obj2,        \* the document of the second file, Undef when there is none
  differences, \* the list deepCompare returned
  patchFile,   \* the patch file the diff command wrote
  heap,        \* the trees applyPatch can reach: its argument and its copy
  result,      \* which tree of the heap applyPatch's `result` refers to
  queue,       \* the operations of the own patch file still to apply
  applied,     \* how many operations were applied
  patched,     \* the tree applyPatch returned, Undef when it did not return
  targetObj,   \* merge: the document of the target file
  sourceObj,   \* merge: the document of the source file
  options,     \* merge: the strategy and arrayMerge options
  merged,      \* merge: the tree mergeJson returned
  baseObj,     \* 3way: the document of the base file
  localObj,    \* 3way: the document of the local file
  remoteObj,   \* 3way: the document of the remote file
  threeWay,    \* 3way: the {merged, conflicts} threeWayMerge returned
  flat,        \* the mapping flattenObject returned
  nested       \* the tree unflattenObject returned

diffVars == <<obj1, obj2, differences, patchFile, heap, result, queue,
              applied, patched>>

mergeVars == <<targetObj, sourceObj, options, merged, baseObj, localObj,
               remoteObj, threeWay, flat, nested>>

vars == <<pc, diffVars, mergeVars>>

InitCommon ==
  /\ pc = "start"
  /\ differences = <<>>
  /\ patchFile = <<>>
  /\ heap = [input |-> Undef, copy |-> Undef]
  /\ result = "input"
  /\ queue = <<>>
  /\ applied = 0
  /\ patched = Undef
  /\ merged = Undef
  /\ threeWay = Undef
  /\ flat = Undef
  /\ nested = Undef

\* The state of a command that reads no merge documents.
NoMergeFiles ==
  /\ targetObj = Undef /\ sourceObj = Undef /\ options = Undef
  /\ baseObj = Undef /\ localObj = Undef /\ remoteObj = Undef

InitDiff == obj1 \in Trees /\ obj2 \in Trees /\ NoMergeFiles /\ InitCommon

\* The documents whose keys a pointer of Pointers can name.
RECURSIVE KeysWithin(_, _)
KeysWithin(v, S) ==
  /\ \A i \in 1..Len(v.keys) : v.keys[i] \in S /\ KeysWithin(v.vals[i], S)
  /\ \A i \in 1..Len(v.elems) : KeysWithin(v.elems[i], S)

PatchTargets == {t \in Trees : KeysWithin(t, {KeyA, Key0})}

InitPatch ==
  obj1 \in PatchTargets /\ obj2 = Undef /\ NoMergeFiles /\ InitCommon

\* The diff command: deepCompare, then generatePatch for the -p option.
DiffCmd ==
  /\ pc = "start"
  /\ differences' = deepCompare(obj1, obj2, <<>>)
  /\ patchFile' = generatePatch(differences')
  /\ pc' = "diffed"
  /\ UNCHANGED <<obj1, obj2, heap, result, queue, applied, patched>>
  /\ UNCHANGED mergeVars

AliasOnEntry(obj) ==
  [heap |-> [input |-> obj, copy |-> Undef], ref |-> "input"]

\* const result = JSON.parse(JSON.stringify(obj))
CopyOnEntry(obj) ==
  [heap |-> [input |-> obj, copy |-> JSONClone(obj)], ref |-> "copy"]

Enter(patches) ==
  /\ heap' = CopyOnEntry(obj1).heap
  /\ result' = CopyOnEntry(obj1).ref
  /\ queue' = patches
  /\ pc' = "applying"
  /\ UNCHANGED <<obj1, obj2, differences, patchFile, applied, patched>>
  /\ UNCHANGED mergeVars

\* The patch command on the first file with the patch file diff wrote.
PatchOwn == pc = "diffed" /\ Enter(patchFile)

\* The patch command with a patch file from elsewhere; its operations are
\* drawn as the loop reaches them.
PatchForeign == pc = "start" /\ Enter(<<>>)

\* One iteration of applyPatch's loop.
Step(op) ==
  LET one == ApplyOne(heap[result], op)
  IN /\ heap' = [heap EXCEPT ![result] = one.v]
     /\ applied' = applied + 1
     /\ pc' = IF one.thrown THEN "failed" ELSE "applying"
     /\ UNCHANGED <<obj1, obj2, differences, patchFile, result, patched>>
     /\ UNCHANGED mergeVars

ApplyNext ==
  /\ pc = "applying"
  /\ queue # <<>>
  /\ queue' = Tail(queue)
  /\ Step(Head(queue))

ApplyForeign ==
  /\ pc = "applying"
  /\ applied < MaxOps
  /\ UNCHANGED queue
  /\ \E op \in ForeignOps : Step(op)

\* return result, at the end of the list
Return ==
  /\ pc = "applying"
  /\ patched' = heap[result]
  /\ pc' = "done"
  /\ UNCHANGED <<obj1, obj2, differences, patchFile, heap, result, queue,
                 applied>>
  /\ UNCHANGED mergeVars

ReturnOwn == queue = <<>> /\ Return

NextDiff == DiffCmd \/ PatchOwn \/ ApplyNext \/ ReturnOwn

NextPatch == PatchForeign \/ ApplyForeign \/ Return

SpecDiff == InitDiff /\ [][NextDiff]_vars

SpecPatch == InitPatch /\ [][NextPatch]_vars

NoDiffFiles ==
  /\ obj1 = Undef /\ obj2 = Undef /\ InitCommon

InitMerge ==
  /\ targetObj \in MergeDocs
  /\ sourceObj \in MergeDocs
  /\ options \in [strategy : Strategies, arrayMerge : ArrayMerges]
  /\ baseObj = Undef /\ localObj = Undef /\ remoteObj = Undef
  /\ NoDiffFiles

\* The merge command without --deep: mergeJson on the two documents read.
\* A TypeError ends the command without a result.
MergeCmd ==
  /\ pc = "start"
  /\ LET call == mergeJson(Mark(targetObj, "target"),
                           Mark(sourceObj, "source"), options)
     IN /\ merged' = IF call.thrown THEN Undef ELSE call.v
        /\ pc' = IF call.thrown THEN "failed" ELSE "merged"
  /\ UNCHANGED <<diffVars, targetObj, sourceObj, options, baseObj, localObj,
                 remoteObj, threeWay, flat, nested>>

NextMerge == MergeCmd

SpecMerge == InitMerge /\ [][NextMerge]_vars

InitThree ==
  /\ baseObj \in ThreeDocs
  /\ localObj \in ThreeDocs
  /\ remoteObj \in ThreeDocs
  /\ targetObj = Undef /\ sourceObj = Undef /\ options = Undef
  /\ NoDiffFiles

\* The 3way command: threeWayMerge on the three documents read, each by
\* its own JSON.parse.
ThreeWayCmd ==
  /\ pc = "start"
  /\ threeWay' = threeWayMerge(Mark(baseObj, "base"), Mark(localObj, "local"),
                               Mark(remoteObj, "remote"))
  /\ pc' = "resolved"
  /\ UNCHANGED <<diffVars, targetObj, sourceObj, options, merged, baseObj,
                 localObj, remoteObj, flat, nested>>

NextThree == ThreeWayCmd

SpecThree == InitThree /\ [][NextThree]_vars

InitFlat == obj1 \in FlatDocs /\ obj2 = Undef /\ NoMergeFiles /\ InitCommon

\* flattenObject(obj) with the default separator
FlattenCall ==
  /\ pc = "start"
  /\ flat' = flattenObject(obj1)
  /\ pc' = "flattened"
  /\ UNCHANGED <<diffVars, targetObj, sourceObj, options, merged, baseObj,
                 localObj, remoteObj, threeWay, nested>>

\* unflattenObject(flat) with the default separator
UnflattenCall ==
  /\ pc = "flattened"
  /\ nested' = unflattenObject(flat)
  /\ pc' = "unflattened"
  /\ UNCHANGED <<diffVars, targetObj, sourceObj, options, merged, baseObj,
                 localObj, remoteObj, threeWay, flat>>

NextFlat == FlattenCall \/ UnflattenCall

SpecFlat == InitFlat /\ [][NextFlat]_vars

(***************************************************************************)
(* What the claims speak of.                                               *)
(***************************************************************************)
Range(seq) == {seq[i] : i \in 1..Len(seq)}

\* Structural equality of two trees: the same kind at every address (an
\* array is not an object), the same keys whatever their order, the same
\* scalars.
RECURSIVE StructEq(_, _)
StructEq(x, y) ==
  /\ x.k = y.k
  /\ x.s = y.s
  /\ Len(x.elems) = Len(y.elems)
  /\ \A i \in 1..Len(x.elems) : StructEq(x.elems[i], y.elems[i])
  /\ Range(x.keys) = Range(y.keys)
  /\ \A i \in 1..Len(x.keys) :
       StructEq(x.vals[i], y.vals[IndexOf(y.keys, x.keys[i])])

IsObj(v) == v.k = "obj"
IsArr(v) == v.k = "arr"
IsContainer(v) == v.k \in {"arr", "obj"}

\* The documents {a: x} and {a: y}: the pair x, y is compared at path a.
UnderA(v) == IsObj(v) /\ v.keys = <<KeyA>>

Kinds(recs) == [i \in 1..Len(recs) |-> recs[i].kind]

\* C1: after the diff of A and B, its patch applied to A gives a tree
\* structurally equal to B.
C1_RoundTrip == pc = "done" => StructEq(patched, obj2)

\* The record of the reverse comparison that answers a record.
Mirror(rec) ==
  CASE rec.kind = "N" ->
         [kind |-> "D", path |-> rec.path, lhs |-> rec.rhs, rhs |-> Undef]
    [] rec.kind = "D" ->
         [kind |-> "N", path |-> rec.path, lhs |-> Undef, rhs |-> rec.lhs]
    [] OTHER ->
         [kind |-> "E", path |-> rec.path, lhs |-> rec.rhs, rhs |-> rec.lhs]

Mirrored(d, back) ==
  /\ {d[i].path : i \in 1..Len(d)} = {back[j].path : j \in 1..Len(back)}
  /\ \A i \in 1..Len(d) : Mirror(d[i]) \in Range(back)
  /\ \A j \in 1..Len(back) : Mirror(back[j]) \in Range(d)

\* C2: the diff of A and B and the diff of B and A have the same paths, an
\* Added of one is a Removed of the other with the same value, an Edited of
\* one is an Edited of the other with lhs and rhs swapped.
C2_DiffSymmetry ==
  pc = "diffed" => Mirrored(differences, deepCompare(obj2, obj1, <<>>))

C2_Witness ==
  /\ pc = "diffed"
  /\ IsObj(obj1) /\ IsObj(obj2)
  /\ {"N", "D", "E"} \subseteq Range(Kinds(differences))

\* C3: the diff of two structurally equal trees is empty.
C3_EmptyOnEqual ==
  pc = "diffed" /\ StructEq(obj1, obj2) => differences = <<>>

C3_Witness ==
  /\ pc = "diffed"
  /\ StructEq(obj1, obj2)
  /\ obj1 # obj2
  /\ \E i \in 1..Len(obj1.vals) : IsContainer(obj1.vals[i])
  /\ differences = <<>>

OneEdit(l, r, path) ==
  differences = <<[kind |-> "E", path |-> path, lhs |-> l, rhs |-> r]>>

\* C4: two values of different types (an array being of another type than an
\* object) compared at a path give exactly one Edited record, at that path,
\* with both whole values.
C4_TypeChangeOneEdit ==
  pc = "diffed" =>
    /\ obj1.k # obj2.k => OneEdit(obj1, obj2, <<>>)
    /\ UnderA(obj1) /\ UnderA(obj2) /\ obj1.vals[1].k # obj2.vals[1].k =>
         OneEdit(obj1.vals[1], obj2.vals[1], KeyA)

\* C5: no two records of one diff have the same path.
C5_PathsUnique ==
  pc = "diffed" =>
    \A i, j \in 1..Len(differences) :
      i # j => differences[i].path # differences[j].path

\* The path of a record at or below the path `at`.
Below(path, at) ==
  \/ path = at
  \/ /\ Len(path) > Len(at)
     /\ SubSeq(path, 1, Len(at)) = at
     /\ path[Len(at) + 1] \in {".", "["}

PathOfKey(base, key) == IF base = <<>> THEN key ELSE base \o <<".">> \o key

\* recs, the diff of the objects l and r compared at path base, is in the
\* stated order.
ObjectOrder(l, r, base, recs) ==
  LET gone == SelectSeq(l.keys, LAMBDA key : key \notin Range(r.keys))
      new == SelectSeq(r.keys, LAMBDA key : key \notin Range(l.keys))
      both == SelectSeq(l.keys, LAMBDA key : key \in Range(r.keys))
      first == Len(gone) + Len(new)
  IN /\ Len(recs) >= first
     /\ \A n \in 1..Len(gone) :
          recs[n] = [kind |-> "D", path |-> PathOfKey(base, gone[n]),
                     lhs |-> l.vals[IndexOf(l.keys, gone[n])], rhs |-> Undef]
     /\ \A n \in 1..Len(new) :
          recs[Len(gone) + n] =
            [kind |-> "N", path |-> PathOfKey(base, new[n]), lhs |-> Undef,
             rhs |-> r.vals[IndexOf(r.keys, new[n])]]
     /\ \A i, j \in (first + 1)..Len(recs) :
          i <= j =>
            \E n, m \in 1..Len(both) :
              /\ n <= m
              /\ Below(recs[i].path, PathOfKey(base, both[n]))
              /\ Below(recs[j].path, PathOfKey(base, both[m]))

PathOfIndex(base, i) == base \o <<"[">> \o ToStr(i) \o <<"]">>

\* recs is the diff of the arrays l and r compared at path base, index by
\* index.
ArrayWalk(l, r, base, recs) ==
  /\ recs = Flatten([n \in 1..Max(Len(l.elems), Len(r.elems)) |->
       IF n > Len(r.elems)
       THEN <<[kind |-> "D", path |-> PathOfIndex(base, n - 1),
               lhs |-> l.elems[n], rhs |-> Undef]>>
       ELSE IF n > Len(l.elems)
       THEN <<[kind |-> "N", path |-> PathOfIndex(base, n - 1),
               lhs |-> Undef, rhs |-> r.elems[n]]>>
       ELSE deepCompare(l.elems[n], r.elems[n], PathOfIndex(base, n - 1))])
  /\ Len(l.elems) <= Len(r.elems)
       /\ SubSeq(r.elems, 1, Len(l.elems)) = l.elems =>
       /\ Len(recs) = Len(r.elems) - Len(l.elems)
       /\ \A n \in 1..Len(recs) : recs[n].kind = "N"

\* C7: two arrays are compared index by index in increasing order: an index
\* of the left array only gives one Removed record, an index of the right
\* array only one Added record, an index of both the records of comparing
\* the two elements; a prefix of the right array gives Added records only.
C7_ArrayIndexDiff ==
  pc = "diffed" =>
    /\ IsArr(obj1) /\ IsArr(obj2) => ArrayWalk(obj1, obj2, <<>>, differences)
    /\ UnderA(obj1) /\ UnderA(obj2)
         /\ IsArr(obj1.vals[1]) /\ IsArr(obj2.vals[1]) =>
         ArrayWalk(obj1.vals[1], obj2.vals[1], KeyA, differences)

C7_Witness ==
  /\ pc = "diffed"
  /\ IsArr(obj1) /\ IsArr(obj2)
  /\ Len(obj1.elems) = 1 /\ Len(obj2.elems) = 2
  /\ Kinds(differences) = <<"E", "N">>

\* The pointer of an address: every segment introduced by '/', an index [i]
\* as the plain segment i.
PointerOfAddress(address) ==
  LET body == Flatten([i \in 1..Len(address) |->
                 CASE address[i] \in {".", "["} -> <<"/">>
                   [] address[i] = "]" -> <<>>
                   [] OTHER -> <<address[i]>>])
  IN IF address = <<>> \/ address[1] = "[" THEN body ELSE <<"/">> \o body

\* C8: every record gives one operation, its pointer is the pointer of the
\* record's address, and two addresses never give one pointer.
C8_PointerDerivation ==
  pc = "diffed" =>
    /\ Len(patchFile) = Len(differences)
    /\ \A n \in 1..Len(differences) :
         patchFile[n].path = PointerOfAddress(differences[n].path)
    /\ \A n, m \in 1..Len(differences) :
         differences[n].path # differences[m].path =>
           patchFile[n].path # patchFile[m].path

\* C9: applyPatch leaves the tree it was given as it was, whether it
\* returns or throws, and a call that threw has returned no tree.
C9_InputUntouched ==
  /\ pc \in {"applying", "done", "failed"} => heap.input = obj1
  /\ pc = "failed" => patched = Undef

\* The second operation threw after the first had changed the copy.
C9_Witness ==
  /\ pc = "failed"
  /\ applied = 2
  /\ heap.copy # obj1
  /\ heap.input = obj1

\* The value a list of pointer segments leads to, Undef when there is none.
RECURSIVE Resolve(_, _)
Resolve(tree, segs) ==
  IF segs = <<>> THEN tree
  ELSE IF IsContainer(tree)
    THEN Resolve(GetProp(tree, Head(segs)), Tail(segs))
  ELSE Undef

\* Before its last segment the pointer meets a value that is missing or is
\* no container.
MeetsNonContainer(tree, segs) ==
  \E i \in 1..(Len(segs) - 1) : ~IsContainer(Resolve(tree, SubSeq(segs, 1, i)))

\* C10: an Add or Replace whose pointer meets, before its last segment, a
\* value that is missing or is no container does not fail, and its value is
\* afterwards at the pointer.
C10_PermissiveParents ==
  [][\A o \in {"add", "replace"}, segs \in PointerSegs :
       LET op == [op |-> o, path |-> Pointer(segs), value |-> Num7]
       IN pc = "applying" /\ Step(op) /\ IsContainer(heap[result])
            /\ MeetsNonContainer(heap[result], segs)
          => pc' = "applying" /\ Resolve(heap'[result'], segs) = Num7]_vars

\* A tree without the names of its nodes.
RECURSIVE Plain(_)
Plain(v) ==
  CASE v.k = "arr" -> Arr([i \in 1..Len(v.elems) |-> Plain(v.elems[i])])
    [] v.k = "obj" -> Obj(v.keys, [i \in 1..Len(v.vals) |-> Plain(v.vals[i])])
    [] OTHER -> v

\* The kinds of the merge: array, object, scalar (null is a scalar).
KindOf(v) ==
  IF IsArr(v) THEN "array" ELSE IF IsObj(v) THEN "object" ELSE "scalar"

SharedKeys(t, s) == Range(t.keys) \cap Range(s.keys)

\* r, the merge of the objects t and s, follows the value policy at every
\* key of both whose values are both scalars or of differing kind, here and
\* in the objects below.
RECURSIVE ValuePolicy(_, _, _, _)
ValuePolicy(t, s, r, strategy) ==
  \A key \in SharedKeys(t, s) :
    LET tv == GetProp(t, key)
        sv == GetProp(s, key)
        rv == GetProp(r, key)
    IN IF KindOf(tv) = "object" /\ KindOf(sv) = "object"
       THEN IsObj(rv) /\ ValuePolicy(tv, sv, rv, strategy)
       ELSE IF KindOf(tv) # KindOf(sv) \/ KindOf(tv) = "scalar"
       THEN Plain(rv) = (IF strategy = "preserve" THEN tv ELSE sv)
       ELSE TRUE

\* C11: mergeJson does not throw, and every key of both target and source
\* whose values are both scalars or of differing kind holds source's value
\* under overwrite and target's value under preserve, at every depth.
C11_ValuePolicy ==
  pc \in {"merged", "failed"} /\ targetObj # Undef =>
    /\ pc = "merged"
    /\ ValuePolicy(targetObj, sourceObj, merged, options.strategy)

\* r holds the value of every leaf (scalar or array) of t, and its other
\* keys are keys of s.
RECURSIVE LeavesKept(_, _, _)
LeavesKept(t, s, r) ==
  IF IsObj(t)
  THEN /\ IsObj(r)
       /\ \A i \in 1..Len(t.keys) :
            LeavesKept(t.vals[i], GetProp(s, t.keys[i]), GetProp(r, t.keys[i]))
       /\ Range(r.keys) \subseteq Range(t.keys) \cup Range(s.keys)
  ELSE Plain(r) = t

\* C12: under strategy preserve, whatever arrayMerge is, every leaf of
\* target (a scalar or an array) has the same value in the merge, and the
\* merge has no key that is neither target's nor source's.
C12_PreserveKeepsTarget ==
  pc = "merged" /\ options.strategy = "preserve" =>
    LeavesKept(targetObj, sourceObj, merged)

\* C13: mergeJson(T, T) under strategy preserve and the default arrayMerge
\* (overwrite) returns a tree structurally equal to T.
C13_PreserveIdempotent ==
  /\ pc \in {"merged", "failed"}
  /\ targetObj # Undef
  /\ targetObj = sourceObj
  /\ options = [strategy |-> "preserve", arrayMerge |-> "overwrite"]
  => pc = "merged" /\ StructEq(Plain(merged), targetObj)

C13_Witness ==
  /\ pc = "merged"
  /\ targetObj = sourceObj
  /\ options = [strategy |-> "preserve", arrayMerge |-> "overwrite"]
  /\ \E i \in 1..Len(targetObj.vals) :
       /\ IsArr(targetObj.vals[i])
       /\ \E j \in 1..Len(targetObj.vals[i].elems) :
            IsObj(targetObj.vals[i].elems[j])
  /\ StructEq(Plain(merged), targetObj)

\* The elements of res, then those of items that are structurally equal
\* to no element before them.
RECURSIVE AppendAbsent(_, _)
AppendAbsent(res, items) ==
  IF items = <<>> THEN res
  ELSE LET present == \E i \in 1..Len(res) : StructEq(res[i], Head(items))
       IN AppendAbsent(IF present THEN res ELSE Append(res, Head(items)),
                       Tail(items))

\* r, the merge of the objects t and s, holds at every key that is an array
\* in both the union of the two arrays, here and in the objects below.
RECURSIVE ArraysUnited(_, _, _)
ArraysUnited(t, s, r) ==
  \A key \in SharedKeys(t, s) :
    LET tv == GetProp(t, key)
        sv == GetProp(s, key)
        rv == GetProp(r, key)
    IN /\ IsArr(tv) /\ IsArr(sv) =>
            Plain(rv) = Arr(AppendAbsent(tv.elems, sv.elems))
       /\ IsObj(tv) /\ IsObj(sv) => IsObj(rv) /\ ArraysUnited(tv, sv, rv)

\* C14: with arrayMerge 'merge', a key that holds an array in both target
\* and source holds target's elements in their order, then the elements of
\* source that are structurally equal to no element already there, in
\* source's order.
C14_MergeUnique ==
  pc = "merged" /\ options.arrayMerge = "merge" =>
    ArraysUnited(targetObj, sourceObj, merged)

\* The names of the nodes of a tree: the documents it shares nodes with.
RECURSIVE Names(_)
Names(v) ==
  IF IsContainer(v)
  THEN Range(v.s)
         \cup UNION {Names(v.elems[i]) : i \in 1..Len(v.elems)}
         \cup UNION {Names(v.vals[i]) : i \in 1..Len(v.vals)}
  ELSE {}

\* C15: the tree mergeJson returns has no array or object node of target or
\* of source, whatever the strategy and arrayMerge.
C15_ResultIndependent == pc = "merged" => Names(merged) = {}

\* The flattened value of a document at an address, Undef when it has none.
FlatAt(doc, address) == GetProp(flattenObject(doc), address)

FlatPaths(doc) == Range(ObjectKeys(flattenObject(doc)))

\* The value a tree holds at an address, Undef when it holds none.
ValueAt(tree, address) == Resolve(tree, Split(address, Dot))

ConflictPaths == {threeWay.conflicts[i].path : i \in 1..Len(threeWay.conflicts)}

Differ(x, y) == ~StructEq(x, y)

\* C16: threeWayMerge reports a conflict at an address exactly when local's
\* flattened value there differs structurally from base's, remote's differs
\* from base's, and the two differ from each other; a leaf (scalar or
\* array) that one side only changed is no conflict.
C16_ConflictsExact ==
  pc = "resolved" =>
    \A p \in FlatPaths(baseObj) \cup FlatPaths(localObj) \cup FlatPaths(remoteObj) :
      p \in ConflictPaths <=>
        /\ Differ(FlatAt(localObj, p), FlatAt(baseObj, p))
        /\ Differ(FlatAt(remoteObj, p), FlatAt(baseObj, p))
        /\ Differ(FlatAt(localObj, p), FlatAt(remoteObj, p))

\* C17: at the address of every conflict, merged holds what base holds
\* there (nothing if base holds nothing), and the conflict record carries
\* the address with local's and remote's new values.
C17_ConflictsNotApplied ==
  pc = "resolved" =>
    \A i \in 1..Len(threeWay.conflicts) :
      LET c == threeWay.conflicts[i]
      IN /\ StructEq(Plain(ValueAt(threeWay.merged, c.path)),
                     ValueAt(baseObj, c.path))
         /\ StructEq(Plain(c.local), FlatAt(localObj, c.path))
         /\ StructEq(Plain(c.remote), FlatAt(remoteObj, c.path))

\* merged holds the new value of every change of the set that is no
\* conflict.
Applied(changes) ==
  \A p \in Range(ObjectKeys(changes)) \ ConflictPaths :
    StructEq(Plain(ValueAt(threeWay.merged, p)),
             GetProp(GetProp(changes, p), ValueName))

\* C18: merged holds local's new value at every address of local's change
\* set that is no conflict, and remote's new value at every address of
\* remote's change set that is no conflict; when the two change sets share
\* no address there is no conflict.
C18_ChangesApplied ==
  pc = "resolved" =>
    LET localChanges == compareChanges(baseObj, localObj)
        remoteChanges == compareChanges(baseObj, remoteObj)
    IN /\ Applied(localChanges)
       /\ Applied(remoteChanges)
       /\ Range(ObjectKeys(localChanges)) \cap Range(ObjectKeys(remoteChanges)) = {}
            => threeWay.conflicts = <<>>

\* C19: for an object tree without arrays, unflattenObject(flattenObject(T))
\* is structurally equal to T.
C19_FlattenRoundTrip == pc = "unflattened" => StructEq(nested, obj1)

\* The elements of an array after an operation at index i with value x.
ElemsAfter(o, elems, i, x) ==
  CASE o = "add" -> SubSeq(elems, 1, i) \o <<x>> \o SubSeq(elems, i + 1, Len(elems))
    [] o = "remove" -> SubSeq(elems, 1, i) \o SubSeq(elems, i + 2, Len(elems))
    [] OTHER -> [elems EXCEPT ![i + 1] = x]

\* The pointers that end in an index.
IndexSegs == {segs \in PointerSegs \ {<<>>} : AllDigits(segs[Len(segs)])}

\* The pointer leads through its parent segments to an array of length n
\* and ends in an index i within the operation's range.
OnArray(o, segs) ==
  LET parent == Resolve(heap[result], SubSeq(segs, 1, Len(segs) - 1))
      i == DigitsValue(segs[Len(segs)], 0)
  IN /\ IsArr(parent)
     /\ i <= Len(parent.elems)
     /\ o # "add" => i < Len(parent.elems)

\* C20: on an array of length n reached by the parent segments, Add at
\* index i <= n inserts the value at i and moves the elements from i on one
\* up, Remove at i < n takes the element at i out and moves the later ones
\* one down, Replace at i < n changes the element at i only.
C20_ArrayOpsShift ==
  [][\A o \in {"add", "remove", "replace"}, segs \in IndexSegs :
       LET op == [op |-> o, path |-> Pointer(segs),
                  value |-> IF o = "remove" THEN Undef ELSE Num7]
           front == SubSeq(segs, 1, Len(segs) - 1)
           parent == Resolve(heap[result], front)
           i == DigitsValue(segs[Len(segs)], 0)
       IN pc = "applying" /\ OnArray(o, segs) /\ Step(op)
          => /\ pc' = "applying"
             /\ Resolve(heap'[result'], front) =
                  [parent EXCEPT !.elems =
                     ElemsAfter(o, parent.elems, i, op.value)]]_vars

\* An Add at index 0 of a two-element array moved both elements up.
C20_Witness ==
  /\ pc = "applying"
  /\ applied = 1
  /\ IsArr(obj1)
  /\ Len(obj1.elems) = 2
  /\ obj1.elems[1] # obj1.elems[2]
  /\ heap.copy = Arr(<<Num7>> \o obj1.elems)

\* C22: when deepCompare returns the empty list, the two trees are
\* structurally equal.
C22_EmptyMeansEqual ==
  pc = "diffed" /\ differences = <<>> => StructEq(obj1, obj2)

\* The address is the address of the key `at` or one below it.
AtOrBelow(address, at) ==
  \/ address = at
  \/ /\ Len(address) > Len(at)
     /\ SubSeq(address, 1, Len(at)) = at
     /\ address[Len(at) + 1] = Dot

\* Every key of the object b that the object gone lacks and the object kept
\* holds as b does is in m as in b, and no change of `changes` and no
\* conflict is at its address or below; the same in the objects that all
\* three hold at one key. `at` is the address of b.
RECURSIVE DeletionKept(_, _, _, _, _, _)
DeletionKept(b, gone, kept, m, changes, at) ==
  \A key \in Range(b.keys) :
    LET address == IF at = <<>> THEN key ELSE at \o <<Dot>> \o key
    IN /\ /\ key \notin Range(gone.keys)
          /\ key \in Range(kept.keys)
          /\ StructEq(GetProp(kept, key), GetProp(b, key))
          => /\ StructEq(Plain(GetProp(m, key)), GetProp(b, key))
             /\ \A p \in Range(ObjectKeys(changes)) \cup ConflictPaths :
                  ~AtOrBelow(p, address)
       /\ /\ IsObj(GetProp(b, key))
          /\ IsObj(GetProp(gone, key))
          /\ IsObj(GetProp(kept, key))
          => /\ IsObj(GetProp(m, key))
             /\ DeletionKept(GetProp(b, key), GetProp(gone, key),
                             GetProp(kept, key), GetProp(m, key), changes,
                             address)

\* C23: a key of base that local (or remote) lacks while the other side
\* holds it as base does is in merged as in base, and the deletion is
\* neither in the change set of the side that lacks the key nor in
\* conflicts.
C23_DeletionNotPropagated ==
  pc = "resolved" =>
    /\ DeletionKept(baseObj, localObj, remoteObj, threeWay.merged,
                    compareChanges(baseObj, localObj), <<>>)
    /\ DeletionKept(baseObj, remoteObj, localObj, threeWay.merged,
                    compareChanges(baseObj, remoteObj), <<>>)

\* The pointers that have a segment made of digits only, with the place of
\* one such segment.
DigitPlaces ==
  {sj \in PointerSegs \X (1..3) :
     sj[2] <= Len(sj[1]) /\ AllDigits(sj[1][sj[2]])}

\* The container c became c2 by the final segment d of the operation o: an
\* array was changed at the index d by splice or by assignment and has no
\* key named d, an object was changed at the key d and has no elements.
LastByType(o, c, c2, d, x) ==
  LET i == DigitsValue(d, 0)
      n == Len(c.elems)
  IN IF IsArr(c)
     THEN /\ IsArr(c2) /\ c2.keys = c.keys /\ c2.vals = c.vals
          /\ CASE o = "add" ->
                    c2.elems = ElemsAfter("add", c.elems, Min(i, n), x)
               [] o = "remove" ->
                    c2.elems = IF i < n THEN ElemsAfter("remove", c.elems, i, x)
                               ELSE c.elems
               [] OTHER ->
                    /\ Len(c2.elems) = Max(n, i + 1)
                    /\ c2.elems[i + 1] = x
                    /\ \A m \in 1..n : m # i + 1 => c2.elems[m] = c.elems[m]
     ELSE /\ IsObj(c2) /\ c2.elems = <<>>
          /\ Range(c2.keys) =
               IF o = "remove" THEN Range(c.keys) \ {d}
               ELSE Range(c.keys) \cup {d}
          /\ o # "remove" => GetProp(c2, d) = x
          /\ \A key \in Range(c.keys) \ {d} : GetProp(c2, key) = GetProp(c, key)

\* The container c became c2 by the walk through the segment d: an array
\* has an element at the index d and no key named d, an object has the key
\* d and no elements.
WalkByType(c, c2, d) ==
  IF IsArr(c)
  THEN IsArr(c2) /\ c2.keys = c.keys /\ Len(c2.elems) > DigitsValue(d, 0)
  ELSE IsObj(c2) /\ c2.elems = <<>> /\ Range(c2.keys) = Range(c.keys) \cup {d}

\* C21: a pointer segment made of digits only is an array index when the
\* container reached so far is an array and a string key when it is an
\* object, as an intermediate segment and as the final one.
C21_SegmentsByType ==
  [][\A o \in {"add", "remove", "replace"}, sj \in DigitPlaces :
       LET segs == sj[1]
           j == sj[2]
           op == [op |-> o, path |-> Pointer(segs),
                  value |-> IF o = "remove" THEN Undef ELSE Num7]
           c == Resolve(heap[result], SubSeq(segs, 1, j - 1))
           c2 == Resolve(heap'[result'], SubSeq(segs, 1, j - 1))
       IN pc = "applying" /\ IsContainer(c) /\ Step(op)
          => IF j = Len(segs)
             THEN pc' = "applying" /\ LastByType(o, c, c2, segs[j], op.value)
             ELSE WalkByType(c, c2, segs[j])]_vars

\* An Add at the pointer /0 on an object gave it the key "0".
C21_Witness ==
  /\ pc = "applying"
  /\ applied = 1
  /\ IsObj(obj1)
  /\ obj1.keys # <<>>
  /\ Key0 \notin Range(obj1.keys)
  /\ IsObj(heap.copy)
  /\ GetProp(heap.copy, Key0) = Num7

====
